---------------------------- MODULE Spec2Model ----------------------------
(***************************************************************************)
(* Model of the DrawingBoard React component                               *)
(* (src/src/components/DrawingBoard.jsx, first variant, lines 1-708).      *)
(*                                                                         *)
(* The component state (useState cells), the canvas bitmap and path, the   *)
(* two backend tables and the handler invocations in flight are the        *)
(* variables.  An async handler is a task: it is created by the event      *)
(* that invokes it, carries the values its closure captured at that        *)
(* render (user, currentDrawingId, currentColor, brushSize), issues one    *)
(* request at a time, and resumes when the reply of that request arrives.  *)
(* A database request is served in one step (the row is stored or the      *)
(* rows are read) and its reply is delivered to the client in a later      *)
(* step, so replies may overtake each other.                               *)
(***************************************************************************)
EXTENDS Integers, Sequences, FiniteSets, Bags, TLC

(***************************************************************************)
(* Bounds of the model.                                                    *)
(***************************************************************************)
MaxTasks == 2
MaxDrawings == 2
MaxStrokes == 2

Users == {"u1"}
\* pointer positions relative to the canvas, in half pixels: (10, 10) and
\* (10.5, 12.5)
Points == {<<20, 20>>, <<21, 25>>}
Colors == {"#000000", "#ef4444"}
BrushSizes == {5}
\* values Date.now() returns
Times == {1}
\* the files the user picks: images of one colour
Files == {"#3b82f6"}

(***************************************************************************)
(* Values.                                                                 *)
(***************************************************************************)
Null == "null"
NoPoint == <<0, 0>>
NoId == <<"null", 0>>
Blank == "blank"

\* The bitmap.  The model follows the pixels at the pointer positions.  A
\* pixel the bitmap does not have (its position is beyond canvas.width or
\* canvas.height) is Outside.
Pixels == Points
\* canvas.width and canvas.height (in half pixels) as the mount effect sets
\* them from the container, here narrower than it is high
InitialSize == <<24, 40>>
CanvasSizes == {InitialSize, <<InitialSize[2], InitialSize[1]>>}
Outside == "outside"
InBounds(p, size) == p[1] < size[1] /\ p[2] < size[2]
BlankOfSize(size) == [p \in Pixels |-> IF InBounds(p, size) THEN Blank ELSE Outside]
BlankCanvas == BlankOfSize(InitialSize)
\* <<canvas.width, canvas.height>> of bitmap c
SizeOf(c) == CHOOSE size \in CanvasSizes : \A p \in Pixels : (c[p] # Outside) <=> InBounds(p, size)
\* ctx.clearRect(0, 0, canvas.width, canvas.height)
Cleared(c) == BlankOfSize(SizeOf(c))
\* ctx.drawImage(img, 0, 0): the image is put at the origin unscaled and
\* composited over the bitmap; what lies beyond the bitmap is dropped
DrawImage(c, img) ==
    [p \in Pixels |-> IF c[p] = Outside THEN Outside
                      ELSE IF img[p] \in {Outside, Blank} THEN c[p]
                      ELSE img[p]]
\* ctx.drawImage(img, 0, 0, canvas.width, canvas.height) of an image of one
\* colour: scaled to cover the bitmap
DrawImageScaled(c, colour) == [p \in Pixels |-> IF c[p] = Outside THEN Outside ELSE colour]
\* handleRotate: the bitmap is copied unscaled into a temporary canvas of
\* swapped size, the canvas takes that size (which blanks it) and the copy
\* is drawn back turned by a quarter turn about the centre; the pixel at
\* <<x, y>> of the copy lands at <<H - y, x>>.  The copy holds what lies
\* within both sizes.  For a bitmap of the initial size the pixels that land
\* on Pixels come from Pixels.
Rotated(c) ==
    LET W == SizeOf(c)[1]
        H == SizeOf(c)[2]
        m == IF W < H THEN W ELSE H
        temp(q) == IF q[1] < m /\ q[2] < m THEN c[q] ELSE Blank
    IN  [p \in Pixels |-> IF InBounds(p, <<H, W>>) THEN temp(<<p[2], H - p[1]>>)
                          ELSE Outside]
NoData == <<"null", BlankCanvas>>
\* no file has been offered yet
NoDownload == <<"", NoData>>

RowId(n) == <<"row", n>>
TempId(t) == <<"temp", t>>
IsTempId(id) == id[1] = "temp"
IsRowId(id) == id[1] = "row"

\* canvas.toDataURL(): the bitmap encoded as a PNG data URL (lossless)
toDataURL(c) == <<"data:image/png", c>>
\* the bitmap an Image decodes from a data URL
Decoded(d) == d[2]
\* Math.round on a coordinate given in half pixels
MathRound(h) == (h + 1) \div 2

MsgNone == ""
MsgSignedIn == "Signed in successfully!"
MsgSignInError == "Error signing in"
MsgSignedUp == "Sign up successful!"
MsgSignUpError == "Error signing up"
MsgSignOutError == "Error signing out"
MsgSignedOut == "Signed out successfully"
MsgListError == "Error loading drawings"
MsgCreated == "New drawing created!"
MsgCreateError == "Error creating drawing"
MsgLoaded == "Drawing loaded!"
MsgLoadError == "Error loading drawing"
MsgNeedSignInToDraw == "Please sign in to start drawing!"
MsgNeedSignIn == "Please sign in first!"
MsgSaved == "Drawing saved successfully!"
MsgSaveError == "Error saving drawing"

VARIABLES
    user,              \* useState(null): the signed-in identity
    savedDrawings,     \* useState([]): the last list result
    currentDrawingId,  \* useState(null)
    isDrawing,         \* useState(false)
    isLoading,         \* useState(false)
    imageLoaded,       \* useState(false)
    brightness,        \* useState(100)
    contrast,          \* useState(100)
    download,          \* the file last offered to the browser as a download:
                       \* the link's download and href attributes
    message,           \* useState('')
    timers,            \* the timeouts of the effect on message that are
                       \* pending, each named by the message it was set for
    authMode,          \* useState('signin')
    currentColor,      \* useState('#000000')
    brushSize,         \* useState(5)
    canvas,            \* the bitmap of canvasRef.current
    path,              \* the current path of the 2d context: the end points
                       \* of its segments
    tasks,             \* bag of handler invocations in flight
    drawings,          \* backend table drawings, in insertion order
    strokes            \* backend table drawing_strokes, in insertion order

ui == <<user, savedDrawings, currentDrawingId, isDrawing, isLoading, message, timers,
        authMode, currentColor, brushSize, imageLoaded, download, brightness, contrast>>
surface == <<canvas, path>>
backend == <<drawings, strokes>>
vars == <<user, savedDrawings, currentDrawingId, isDrawing, isLoading, message, timers,
          authMode, currentColor, brushSize, imageLoaded, download, brightness, contrast,
          canvas, path, tasks,
          drawings, strokes>>

(***************************************************************************)
(* Tasks.  Every task has the same fields; the ones an operation does not  *)
(* use hold the defaults of NewTask.                                       *)
(*   op    the handler: fetchUser, signIn, signUp, signOut, save, load,    *)
(*         draw                                                            *)
(*   pc    the await it is suspended at                                    *)
(*   st    sent (request issued), ok / err (reply arrived)                 *)
(*   cu, cid, color, size                                                  *)
(*         user, currentDrawingId, currentColor and brushSize as captured  *)
(*         by the handler's closure, for the handlers that read them       *)
(*         after an await or pass them in a request                        *)
(*   pt    the pointer position of a draw event                            *)
(*   data  the data URL a save sends or a load has fetched                 *)
(*   id    the drawing a load asks for, or the id an insert returned       *)
(*   rows  the rows a list query returned                                  *)
(***************************************************************************)
NewTask(op, pc) ==
    [op |-> op, pc |-> pc, st |-> "sent", cu |-> Null, cid |-> NoId,
     pt |-> NoPoint, color |-> "#000000", size |-> 5,
     data |-> NoData, id |-> NoId, rows |-> <<>>]

Pending == BagToSet(tasks)
NumTasks == BagCardinality(tasks)
Spawn(t) == tasks (+) SetToBag({t})
Finish(t) == tasks (-) SetToBag({t})
Become(t, u) == (tasks (-) SetToBag({t})) (+) SetToBag({u})
Replied(t) == t.st \in {"ok", "err"}


\* every text the status message takes
Messages ==
    {MsgSignInError, MsgSignedIn, MsgSignedUp, MsgSignUpError, MsgSignOutError,
     MsgSignedOut, MsgListError, MsgCreated, MsgCreateError, MsgSaved, MsgSaveError,
     MsgNeedSignIn, MsgLoadError, MsgLoaded, MsgNeedSignInToDraw}

\* MessageEffect, without the cleanup returned by the effect
MessageEffectNoCleanup(T, m, m2) ==
    IF m2 = m THEN T
    ELSE T \cup (IF m2 = MsgNone THEN {} ELSE {m2})

\* the effect on [message], run for the render in which message goes from m
\* to m2, on the pending timeouts T: it does not run when the value is the
\* same; otherwise its cleanup clears the timeout set for m, and a non-empty
\* m2 gets a timeout of its own
MessageEffect(T, m, m2) ==
    IF m2 = m THEN T
    ELSE (T \ {m}) \cup (IF m2 = MsgNone THEN {} ELSE {m2})

\* setMessage(m2) and the render it causes
SetMessage(m2) ==
    /\ message' = m2
    /\ timers' = MessageEffect(timers, message, m2)

(***************************************************************************)
(* Initial state: the component has mounted, the canvas is blank and the   *)
(* mount effect has called fetchUser (lines 67-83), whose closure is the   *)
(* first render's (user = null).                                           *)
(***************************************************************************)
Init ==
    /\ user = Null
    /\ savedDrawings = <<>>
    /\ currentDrawingId = NoId
    /\ isDrawing = FALSE
    /\ isLoading = FALSE
    /\ imageLoaded = FALSE
    /\ download = NoDownload
    /\ brightness = 100
    /\ contrast = 100
    /\ message = MsgNone
    /\ timers = {}
    /\ authMode = "signin"
    /\ currentColor = "#000000"
    /\ brushSize = 5
    /\ canvas = BlankCanvas
    /\ path = {}
    /\ tasks = SetToBag({NewTask("fetchUser", "getUser")})
    /\ drawings = <<>>
    /\ strokes = <<>>

(***************************************************************************)
(* Backend: the hosted database.                                           *)
(***************************************************************************)
\* select('id, name, created_at, canvas_data') of one row
Summary(r) == [id |-> r.id, created_at |-> r.created_at, canvas_data |-> r.canvas_data]

\* r put into s, which is ordered by created_at descending
RECURSIVE InsertDesc(_, _)
InsertDesc(r, s) ==
    IF s = <<>> THEN <<r>>
    ELSE IF r.created_at > Head(s).created_at THEN <<r>> \o s
    ELSE <<Head(s)>> \o InsertDesc(r, Tail(s))

\* .order('created_at', { ascending: false })
RECURSIVE OrderDesc(_)
OrderDesc(s) == IF s = <<>> THEN <<>> ELSE InsertDesc(Head(s), OrderDesc(Tail(s)))

RECURSIVE Summaries(_)
Summaries(s) == IF s = <<>> THEN <<>> ELSE <<Summary(Head(s))>> \o Summaries(Tail(s))

\* ListResult, without the order clause: the rows as the table holds them
ListResultUnordered == Summaries(drawings)

\* the reply to loadSavedDrawings' query: every row of the table (the query
\* has no filter), newest first
ListResult == OrderDesc(Summaries(drawings))

\* NewDrawingRow, with saveDrawing's insert written like createNewDrawing's:
\* without canvas_data
NewDrawingRowNoData(t) ==
    [id |-> RowId(Len(drawings) + 1), created_at |-> Len(drawings) + 1,
     created_by |-> t.cu, is_public |-> TRUE, canvas_data |-> NoData]

\* the row an insert into drawings stores; the database assigns id and
\* created_at
NewDrawingRow(t) ==
    [id |-> RowId(Len(drawings) + 1), created_at |-> Len(drawings) + 1,
     created_by |-> t.cu, is_public |-> TRUE, canvas_data |-> t.data]

\* NewStrokeRow, with the colour read when the request is served instead of
\* when the event was handled
NewStrokeRowLateColor(t) ==
    [drawing_id |-> t.cid, user_id |-> t.cu, x |-> MathRound(t.pt[1]),
     y |-> MathRound(t.pt[2]), color |-> currentColor, brush_size |-> t.size]

\* the row an insert into drawing_strokes stores
NewStrokeRow(t) ==
    [drawing_id |-> t.cid, user_id |-> t.cu, x |-> MathRound(t.pt[1]),
     y |-> MathRound(t.pt[2]), color |-> t.color, brush_size |-> t.size]

DbRequest(t) == t.st = "sent" /\ t.pc \in {"list", "create", "insert", "select", "stroke"}

DbList ==
    \E t \in Pending :
        /\ t.st = "sent" /\ t.pc = "list"
        /\ tasks' = Become(t, [t EXCEPT !.st = "ok", !.rows = ListResult])
        /\ UNCHANGED <<ui, surface, backend>>

\* DbInsertDrawing, with a save written as saveDrawingToDb's update: the
\* snapshot is put into the newest row when there is one
DbInsertDrawingUpdates ==
    \E t \in Pending :
        /\ t.st = "sent" /\ t.pc \in {"create", "insert"}
        /\ Len(drawings) < MaxDrawings
        /\ drawings' = IF drawings = <<>>
                       THEN Append(drawings, NewDrawingRow(t))
                       ELSE [drawings EXCEPT ![Len(drawings)].canvas_data = t.data]
        /\ tasks' = Become(t, [t EXCEPT !.st = "ok",
                                  !.id = RowId(IF drawings = <<>> THEN 1 ELSE Len(drawings))])
        /\ UNCHANGED <<ui, surface, strokes>>

\* an insert into drawings is served.  It is the only write to that table:
\* saveDrawingToDb, the one update, is called from nowhere
DbInsertDrawing ==
    \E t \in Pending :
        /\ t.st = "sent" /\ t.pc \in {"create", "insert"}
        /\ Len(drawings) < MaxDrawings
        /\ drawings' = Append(drawings, NewDrawingRow(t))
        /\ tasks' = Become(t, [t EXCEPT !.st = "ok", !.id = RowId(Len(drawings) + 1)])
        /\ UNCHANGED <<ui, surface, strokes>>

DbSelect ==
    \E t \in Pending :
        /\ t.st = "sent" /\ t.pc = "select"
        /\ LET hit == {i \in 1..Len(drawings) : drawings[i].id = t.id}
           IN  tasks' = Become(t, IF hit = {}
                                  THEN [t EXCEPT !.st = "err"]
                                  ELSE [t EXCEPT !.st = "ok",
                                          !.data = drawings[CHOOSE i \in hit : TRUE].canvas_data])
        /\ UNCHANGED <<ui, surface, backend>>

\* DbInsertStroke, with the new row put in place of the rows stored before
DbInsertStrokeReplaces ==
    \E t \in Pending :
        /\ t.st = "sent" /\ t.pc = "stroke"
        /\ Len(strokes) < MaxStrokes
        /\ strokes' = <<NewStrokeRow(t)>>
        /\ tasks' = Become(t, [t EXCEPT !.st = "ok"])
        /\ UNCHANGED <<ui, surface, drawings>>

DbInsertStroke ==
    \E t \in Pending :
        /\ t.st = "sent" /\ t.pc = "stroke"
        /\ Len(strokes) < MaxStrokes
        /\ strokes' = Append(strokes, NewStrokeRow(t))
        /\ tasks' = Become(t, [t EXCEPT !.st = "ok"])
        /\ UNCHANGED <<ui, surface, drawings>>

\* a request that fails (network or storage error): nothing is stored
DbFail ==
    \E t \in Pending :
        /\ DbRequest(t)
        /\ tasks' = Become(t, [t EXCEPT !.st = "err"])
        /\ UNCHANGED <<ui, surface, backend>>

(***************************************************************************)
(* Session: fetchUser, signIn, signUp, signOut.                            *)
(***************************************************************************)
\* CreateNewDrawingCall, with the caller's setIsLoading(false) left out
CreateNewDrawingCallKeepsLoading(t) ==
    IF t.cu = Null
    THEN /\ tasks' = Finish(t)
         /\ UNCHANGED isLoading
    ELSE /\ tasks' = Become(t, [t EXCEPT !.pc = "create", !.st = "sent"])
         /\ UNCHANGED isLoading

\* createNewDrawing as called by task t, after the synchronous part of the
\* caller: `if (!user) return` reads the user of t's closure
CreateNewDrawingCall(t) ==
    IF t.cu = Null
    THEN /\ tasks' = Finish(t)
         /\ isLoading' = IF t.op = "signIn" THEN FALSE ELSE isLoading
    ELSE /\ tasks' = Become(t, [t EXCEPT !.pc = "create", !.st = "sent"])
         /\ UNCHANGED isLoading

\* the reply to supabase.auth.getUser() of the mount effect: with a user,
\* setUser, loadSavedDrawings() and createNewDrawing() (neither awaited)
FetchUserReply ==
    \E t \in Pending :
        /\ t.op = "fetchUser" /\ t.pc = "getUser"
        /\ \/ /\ tasks' = Finish(t)
              /\ UNCHANGED user
           \/ \E u \in Users :
                /\ user' = u
                /\ tasks' = IF t.cu = Null
                            THEN Become(t, [t EXCEPT !.pc = "list"])
                            ELSE Become(t, [t EXCEPT !.pc = "list"])
                                 (+) SetToBag({[t EXCEPT !.pc = "create"]})
        /\ UNCHANGED <<savedDrawings, currentDrawingId, isDrawing, isLoading, message,
                       timers,
                       authMode, currentColor, brushSize, surface, imageLoaded, download,
                       brightness, contrast, backend>>

\* the sign-in form is rendered while user is null; its button is disabled
\* while isLoading
SignIn ==
    /\ user = Null /\ authMode = "signin" /\ ~isLoading
    /\ NumTasks < MaxTasks
    /\ isLoading' = TRUE
    /\ tasks' = Spawn([NewTask("signIn", "auth") EXCEPT !.cu = user])
    /\ UNCHANGED <<user, savedDrawings, currentDrawingId, isDrawing, message, timers,
                   authMode,
                   currentColor, brushSize, surface, imageLoaded, download, brightness,
                   contrast, backend>>

\* SignInReply, without `if (error) throw error`: the handler goes on to
\* the list after a refused sign-in
SignInReplyIgnoresError ==
    \E t \in Pending :
        /\ t.op = "signIn" /\ t.pc = "auth"
        /\ \/ /\ SetMessage(MsgSignInError)
              /\ tasks' = Become(t, [t EXCEPT !.pc = "list"])
              /\ UNCHANGED <<user, isLoading>>
           \/ \E u \in Users :
                /\ user' = u
                /\ SetMessage(MsgSignedIn)
                /\ tasks' = Become(t, [t EXCEPT !.pc = "list"])
                /\ UNCHANGED isLoading
        /\ UNCHANGED <<savedDrawings, currentDrawingId, isDrawing, authMode,
                       currentColor, brushSize, surface, imageLoaded, download,
                       brightness, contrast, backend>>

\* the reply to signInWithPassword: an error, or the identity u
SignInReply ==
    \E t \in Pending :
        /\ t.op = "signIn" /\ t.pc = "auth"
        /\ \/ /\ SetMessage(MsgSignInError)
              /\ isLoading' = FALSE
              /\ tasks' = Finish(t)
              /\ UNCHANGED user
           \/ \E u \in Users :
                /\ user' = u
                /\ SetMessage(MsgSignedIn)
                /\ tasks' = Become(t, [t EXCEPT !.pc = "list"])
                /\ UNCHANGED isLoading
        /\ UNCHANGED <<savedDrawings, currentDrawingId, isDrawing, authMode,
                       currentColor, brushSize, surface, imageLoaded, download,
                       brightness, contrast, backend>>

SetAuthMode(m) ==
    /\ user = Null
    /\ authMode' = m
    /\ UNCHANGED <<user, savedDrawings, currentDrawingId, isDrawing, isLoading, message,
                   timers,
                   currentColor, brushSize, surface, tasks, imageLoaded, download,
                   brightness, contrast, backend>>

SignUp ==
    /\ user = Null /\ authMode = "signup" /\ ~isLoading
    /\ NumTasks < MaxTasks
    /\ isLoading' = TRUE
    /\ tasks' = Spawn(NewTask("signUp", "signup"))
    /\ UNCHANGED <<user, savedDrawings, currentDrawingId, isDrawing, message, timers,
                   authMode,
                   currentColor, brushSize, surface, imageLoaded, download, brightness,
                   contrast, backend>>

\* SignUpReply, with the identity the provider returns taken as the session
SignUpReplySignsIn ==
    \E t \in Pending :
        /\ t.op = "signUp" /\ t.pc = "signup"
        /\ \/ /\ SetMessage(MsgSignedUp)
              /\ authMode' = "signin"
              /\ \E u \in Users : user' = u
           \/ /\ SetMessage(MsgSignUpError)
              /\ UNCHANGED <<authMode, user>>
        /\ isLoading' = FALSE
        /\ tasks' = Finish(t)
        /\ UNCHANGED <<savedDrawings, currentDrawingId, isDrawing, currentColor,
                       brushSize, surface, imageLoaded, download, brightness, contrast,
                       backend>>

\* the reply to supabase.auth.signUp: accepted, or an error
SignUpReply ==
    \E t \in Pending :
        /\ t.op = "signUp" /\ t.pc = "signup"
        /\ \/ /\ SetMessage(MsgSignedUp)
              /\ authMode' = "signin"
           \/ /\ SetMessage(MsgSignUpError)
              /\ UNCHANGED authMode
        /\ isLoading' = FALSE
        /\ tasks' = Finish(t)
        /\ UNCHANGED <<user, savedDrawings, currentDrawingId, isDrawing, currentColor,
                       brushSize, surface, imageLoaded, download, brightness, contrast,
                       backend>>

\* the Sign Out button is rendered while user is set
SignOut ==
    /\ user # Null
    /\ NumTasks < MaxTasks
    /\ tasks' = Spawn(NewTask("signOut", "signout"))
    /\ UNCHANGED <<ui, surface, backend>>

\* SignOutFailed, with the session ended locally although the provider
\* refused
SignOutFailedForcesLocal(t) ==
    /\ SetMessage(MsgSignOutError)
    /\ tasks' = Finish(t)
    /\ user' = Null
    /\ UNCHANGED <<savedDrawings, currentDrawingId, canvas>>

\* `if (error) { setMessage(...); return; }`
SignOutFailed(t) ==
    /\ SetMessage(MsgSignOutError)
    /\ tasks' = Finish(t)
    /\ UNCHANGED <<user, savedDrawings, currentDrawingId, canvas>>

\* SignOutDone, without the call of clearCanvas
SignOutDoneKeepsCanvas(t) ==
    /\ user' = Null
    /\ savedDrawings' = <<>>
    /\ currentDrawingId' = NoId
    /\ SetMessage(MsgSignedOut)
    /\ tasks' = Finish(t)
    /\ UNCHANGED canvas

SignOutDone(t) ==
    /\ user' = Null
    /\ savedDrawings' = <<>>
    /\ currentDrawingId' = NoId
    /\ canvas' = Cleared(canvas)
    /\ SetMessage(MsgSignedOut)
    /\ tasks' = Finish(t)

SignOutReply ==
    \E t \in Pending :
        /\ t.op = "signOut" /\ t.pc = "signout"
        /\ SignOutFailed(t) \/ SignOutDone(t)
        /\ UNCHANGED <<isDrawing, isLoading, authMode, currentColor, brushSize, path,
                       imageLoaded, download, brightness, contrast, backend>>

(***************************************************************************)
(* Drawing repository: loadSavedDrawings, createNewDrawing, saveDrawing,   *)
(* loadDrawing.                                                            *)
(***************************************************************************)
\* ListReply, with the list emptied when the query has failed
ListReplyClearsOnError ==
    \E t \in Pending :
        /\ t.pc = "list" /\ Replied(t)
        /\ IF t.st = "ok"
           THEN savedDrawings' = t.rows /\ UNCHANGED <<message, timers>>
           ELSE SetMessage(MsgListError) /\ savedDrawings' = <<>>
        /\ IF t.op = "signIn"
           THEN CreateNewDrawingCall(t)
           ELSE tasks' = Finish(t) /\ UNCHANGED isLoading
        /\ UNCHANGED <<user, currentDrawingId, isDrawing, authMode, currentColor,
                       brushSize, surface, imageLoaded, download, brightness, contrast,
                       backend>>

\* the reply to loadSavedDrawings' query, and what its caller does next:
\* signIn goes on to createNewDrawing, saveDrawing and fetchUser are done
ListReply ==
    \E t \in Pending :
        /\ t.pc = "list" /\ Replied(t)
        /\ IF t.st = "ok"
           THEN savedDrawings' = t.rows /\ UNCHANGED <<message, timers>>
           ELSE SetMessage(MsgListError) /\ UNCHANGED savedDrawings
        /\ IF t.op = "signIn"
           THEN CreateNewDrawingCall(t)
           ELSE tasks' = Finish(t) /\ UNCHANGED isLoading
        /\ UNCHANGED <<user, currentDrawingId, isDrawing, authMode, currentColor,
                       brushSize, surface, imageLoaded, download, brightness, contrast,
                       backend>>

\* createNewDrawing after its insert: the new id, or the fallback id
CreateReply(t) ==
    /\ IF t.st = "ok"
       THEN /\ currentDrawingId' = t.id
            /\ SetMessage(MsgCreated)
       ELSE /\ SetMessage(MsgCreateError)
            /\ \E now \in Times : currentDrawingId' = TempId(now)
    /\ tasks' = Finish(t)
    /\ isLoading' = IF t.op = "signIn" THEN FALSE ELSE isLoading
    /\ UNCHANGED user

\* SaveReply, with the identity of the closure put back once the save has
\* returned
SaveReplyRestoresUser(t) ==
    /\ IF t.st = "ok"
       THEN /\ SetMessage(MsgSaved)
            /\ currentDrawingId' = t.id
            /\ tasks' = Become(t, [t EXCEPT !.pc = "list", !.st = "sent"])
       ELSE /\ SetMessage(MsgSaveError)
            /\ tasks' = Finish(t)
            /\ UNCHANGED currentDrawingId
    /\ user' = t.cu
    /\ UNCHANGED isLoading

\* saveDrawing after its insert: the new id becomes current and the list is
\* loaded again
SaveReply(t) ==
    /\ IF t.st = "ok"
       THEN /\ SetMessage(MsgSaved)
            /\ currentDrawingId' = t.id
            /\ tasks' = Become(t, [t EXCEPT !.pc = "list", !.st = "sent"])
       ELSE /\ SetMessage(MsgSaveError)
            /\ tasks' = Finish(t)
            /\ UNCHANGED currentDrawingId
    /\ UNCHANGED <<user, isLoading>>

InsertDrawingReply ==
    \E t \in Pending :
        /\ t.pc \in {"create", "insert"} /\ Replied(t)
        /\ IF t.pc = "create" THEN CreateReply(t) ELSE SaveReply(t)
        /\ UNCHANGED <<savedDrawings, isDrawing, authMode, currentColor,
                       brushSize, surface, imageLoaded, download, brightness, contrast,
                       backend>>

\* SaveDrawing, without the `if (!user)` guard
SaveDrawingUnguarded ==
    /\ NumTasks < MaxTasks
    /\ tasks' = Spawn([NewTask("save", "insert") EXCEPT
                           !.cu = user, !.data = toDataURL(canvas)])
    /\ UNCHANGED <<ui, surface, backend>>

\* the Save Drawing button; the name asked for with prompt() is not modelled
SaveDrawing ==
    IF user = Null
    THEN /\ SetMessage(MsgNeedSignIn)
         /\ UNCHANGED <<user, savedDrawings, currentDrawingId, isDrawing, isLoading,
                        authMode, currentColor, brushSize, surface, tasks, imageLoaded,
                        download, brightness, contrast, backend>>
    ELSE /\ NumTasks < MaxTasks
         /\ tasks' = Spawn([NewTask("save", "insert") EXCEPT
                                !.cu = user, !.data = toDataURL(canvas)])
         /\ UNCHANGED <<ui, surface, backend>>

\* a click on an entry of the saved-drawings list, rendered while user is set
LoadDrawing(i) ==
    /\ user # Null
    /\ NumTasks < MaxTasks
    /\ tasks' = Spawn([NewTask("load", "select") EXCEPT !.id = savedDrawings[i].id])
    /\ UNCHANGED <<ui, surface, backend>>

\* LoadReply, without setCurrentDrawingId
LoadReplyKeepsId ==
    \E t \in Pending :
        /\ t.pc = "select" /\ Replied(t)
        /\ IF t.st = "err"
           THEN /\ SetMessage(MsgLoadError)
                /\ tasks' = Finish(t)
           ELSE IF t.data # NoData
           THEN /\ SetMessage(MsgLoaded)
                /\ tasks' = Become(t, [t EXCEPT !.pc = "decode", !.st = "sent"])
           ELSE /\ tasks' = Finish(t)
                /\ UNCHANGED <<message, timers>>
        /\ UNCHANGED <<user, savedDrawings, currentDrawingId, isDrawing, isLoading,
                       authMode, currentColor, brushSize, surface, imageLoaded, download,
                       brightness, contrast, backend>>

\* loadDrawing after its query: with canvas_data, the image starts to decode
LoadReply ==
    \E t \in Pending :
        /\ t.pc = "select" /\ Replied(t)
        /\ IF t.st = "err"
           THEN /\ SetMessage(MsgLoadError)
                /\ tasks' = Finish(t)
                /\ UNCHANGED currentDrawingId
           ELSE IF t.data # NoData
           THEN /\ currentDrawingId' = t.id
                /\ SetMessage(MsgLoaded)
                /\ tasks' = Become(t, [t EXCEPT !.pc = "decode", !.st = "sent"])
           ELSE /\ tasks' = Finish(t)
                /\ UNCHANGED <<currentDrawingId, message, timers>>
        /\ UNCHANGED <<user, savedDrawings, isDrawing, isLoading, authMode,
                       currentColor, brushSize, surface, imageLoaded, download,
                       brightness, contrast, backend>>

\* the browser decodes the image of `img.src = drawing.canvas_data` in the
\* background: it succeeds or fails
ImageDecode ==
    \E t \in Pending :
        /\ t.pc = "decode" /\ t.st = "sent"
        /\ \E st \in {"ok", "err"} : tasks' = Become(t, [t EXCEPT !.st = st])
        /\ UNCHANGED <<ui, surface, backend>>

\* img.onload: clearCanvas(); ctx.drawImage(img, 0, 0)
ImageOnload ==
    \E t \in Pending :
        /\ t.pc = "decode" /\ t.st = "ok"
        /\ canvas' = DrawImage(Cleared(canvas), Decoded(t.data))
        /\ tasks' = Finish(t)
        /\ UNCHANGED <<ui, path, backend>>

\* the image has failed to decode: onload is never called
ImageError ==
    \E t \in Pending :
        /\ t.pc = "decode" /\ t.st = "err"
        /\ tasks' = Finish(t)
        /\ UNCHANGED <<ui, surface, backend>>

(***************************************************************************)
(* Canvas: startDrawing, draw, stopDrawing, clearCanvas.                   *)
(***************************************************************************)
\* ctx.stroke() with strokeStyle c: every segment of the current path is
\* painted (a segment is identified by its end point)
Stroked(c, pth, color) ==
    [q \in Pixels |-> IF q \in pth /\ c[q] # Outside THEN color ELSE c[q]]

\* StartDrawing, without the check of user
StartDrawingUnguarded(p) ==
    /\ isDrawing' = TRUE
    /\ path' = {}
    /\ UNCHANGED <<user, savedDrawings, currentDrawingId, isLoading, message, timers,
                   authMode, currentColor, brushSize, canvas, tasks, imageLoaded,
                   download, brightness, contrast, backend>>

\* mousedown on the canvas
StartDrawing(p) ==
    IF user = Null
    THEN /\ SetMessage(MsgNeedSignInToDraw)
         /\ UNCHANGED <<user, savedDrawings, currentDrawingId, isDrawing, isLoading,
                        authMode, currentColor, brushSize, surface, tasks, imageLoaded,
                        download, brightness, contrast, backend>>
    ELSE /\ isDrawing' = TRUE
         /\ path' = {}
         /\ UNCHANGED <<user, savedDrawings, currentDrawingId, isLoading, message, timers,
                        authMode, currentColor, brushSize, canvas, tasks, imageLoaded,
                        download, brightness, contrast, backend>>

\* Draw, with the segment left unpainted when the insert is issued
DrawUnpainted(p) ==
    IF ~isDrawing \/ user = Null
    THEN UNCHANGED vars
    ELSE /\ NumTasks < MaxTasks
         /\ path' = path \cup {p}
         /\ tasks' = Spawn([NewTask("draw", "stroke") EXCEPT
                                !.cu = user, !.cid = currentDrawingId, !.pt = p,
                                !.color = currentColor, !.size = brushSize])
         /\ UNCHANGED <<ui, canvas, backend>>

\* Draw, without the check of user
DrawWithoutUser(p) ==
    IF ~isDrawing
    THEN UNCHANGED vars
    ELSE /\ NumTasks < MaxTasks
         /\ path' = path \cup {p}
         /\ canvas' = Stroked(canvas, path', currentColor)
         /\ tasks' = Spawn([NewTask("draw", "stroke") EXCEPT
                                !.cu = user, !.cid = currentDrawingId, !.pt = p,
                                !.color = currentColor, !.size = brushSize])
         /\ UNCHANGED <<ui, backend>>

\* mousemove on the canvas: the segment is painted, then the insert into
\* drawing_strokes is issued
Draw(p) ==
    IF ~isDrawing \/ user = Null
    THEN UNCHANGED vars
    ELSE /\ NumTasks < MaxTasks
         /\ path' = path \cup {p}
         /\ canvas' = Stroked(canvas, path', currentColor)
         /\ tasks' = Spawn([NewTask("draw", "stroke") EXCEPT
                                !.cu = user, !.cid = currentDrawingId, !.pt = p,
                                !.color = currentColor, !.size = brushSize])
         /\ UNCHANGED <<ui, backend>>

\* DrawReply, with a failed insert reported in the status message
DrawReplyReportsError ==
    \E t \in Pending :
        /\ t.pc = "stroke" /\ Replied(t)
        /\ tasks' = Finish(t)
        /\ SetMessage(IF t.st = "err" THEN MsgSaveError ELSE message)
        /\ UNCHANGED <<user, savedDrawings, currentDrawingId, isDrawing, isLoading,
                       authMode, currentColor, brushSize, surface, imageLoaded, download,
                       brightness, contrast, backend>>

\* draw after its insert: the reply is not looked at and an exception is
\* caught and dropped
DrawReply ==
    \E t \in Pending :
        /\ t.pc = "stroke" /\ Replied(t)
        /\ tasks' = Finish(t)
        /\ UNCHANGED <<ui, surface, backend>>

\* StopDrawing, written as a toggle
StopDrawingToggles ==
    /\ isDrawing' = ~isDrawing
    /\ UNCHANGED <<user, savedDrawings, currentDrawingId, isLoading, message, timers,
                   authMode,
                   currentColor, brushSize, surface, tasks, imageLoaded, download,
                   brightness, contrast, backend>>

\* mouseup or mouseleave on the canvas
StopDrawing ==
    /\ isDrawing' = FALSE
    /\ UNCHANGED <<user, savedDrawings, currentDrawingId, isLoading, message, timers,
                   authMode,
                   currentColor, brushSize, surface, tasks, imageLoaded, download,
                   brightness, contrast, backend>>

\* ClearCanvas, ending the stroke in progress as well
ClearCanvasStopsDrawing ==
    /\ canvas' = Cleared(canvas)
    /\ isDrawing' = FALSE
    /\ UNCHANGED <<user, savedDrawings, currentDrawingId, isLoading, message, timers,
                   authMode, currentColor, brushSize, imageLoaded, download,
                   brightness, contrast, path, tasks, backend>>

\* the Clear Canvas button: ctx.clearRect over the whole canvas
ClearCanvas ==
    /\ canvas' = Cleared(canvas)
    /\ UNCHANGED <<ui, path, tasks, backend>>

SetCurrentColor(c) ==
    /\ currentColor' = c
    /\ UNCHANGED <<user, savedDrawings, currentDrawingId, isDrawing, isLoading, message,
                   timers,
                   authMode, brushSize, surface, tasks, imageLoaded, download,
                   brightness, contrast, backend>>

SetBrushSize(n) ==
    /\ brushSize' = n
    /\ UNCHANGED <<user, savedDrawings, currentDrawingId, isDrawing, isLoading, message,
                   timers,
                   authMode, currentColor, surface, tasks, imageLoaded, download,
                   brightness, contrast, backend>>

\* the timeout of the effect on message (116) set for message l expires
TimerFires(l) ==
    /\ l \in timers
    /\ message' = MsgNone
    /\ timers' = MessageEffect(timers \ {l}, message, MsgNone)
    /\ UNCHANGED <<user, savedDrawings, currentDrawingId, isDrawing, isLoading,
                   authMode, currentColor, brushSize, surface, tasks, imageLoaded,
                   download, brightness, contrast, backend>>

\* the effect on message: a non-empty message is cleared after 3 seconds
MessageTimer == \E l \in timers : TimerFires(l)

\* DownloadDrawing, with a status message set
DownloadDrawingReportsIt ==
    /\ download' = <<"my-drawing.png", toDataURL(canvas)>>
    /\ SetMessage(MsgSaved)
    /\ UNCHANGED <<user, savedDrawings, currentDrawingId, isDrawing, isLoading,
                   authMode, currentColor, brushSize, imageLoaded, brightness, contrast,
                   surface, tasks, backend>>

\* the Download button, rendered with or without a session: a link named
\* my-drawing.png with the bitmap's data URL is clicked
DownloadDrawing ==
    /\ download' = <<"my-drawing.png", toDataURL(canvas)>>
    /\ UNCHANGED <<user, savedDrawings, currentDrawingId, isDrawing, isLoading, message,
                   timers, authMode, currentColor, brushSize, imageLoaded, brightness,
                   contrast, surface, tasks, backend>>

(***************************************************************************)
(* Image tools: handleImageUpload, handleRotate.                           *)
(***************************************************************************)
\* a file picked with the Upload Image button, which is disabled while user
\* is null: the FileReader starts to read it
UploadImage(f) ==
    /\ user # Null
    /\ NumTasks < MaxTasks
    /\ tasks' = Spawn([NewTask("upload", "file") EXCEPT !.color = f])
    /\ UNCHANGED <<ui, surface, backend>>

\* img.onload of the uploaded image: it replaces the bitmap, scaled to the
\* canvas, and the image tools become enabled
UploadOnload ==
    \E t \in Pending :
        /\ t.pc = "file"
        /\ canvas' = DrawImageScaled(Cleared(canvas), t.color)
        /\ imageLoaded' = TRUE
        /\ tasks' = Finish(t)
        /\ UNCHANGED <<brightness, contrast, download>>
        /\ UNCHANGED <<user, savedDrawings, currentDrawingId, isDrawing, isLoading,
                       message, timers, authMode, currentColor, brushSize, path, backend>>

\* the Rotate button, enabled once an image has been uploaded.  The pointer
\* is on the button, so it has left the canvas and stopDrawing has run;
\* resizing the canvas resets the context and with it the current path.
\* The model follows the first quarter turn of the canvas.
Rotate ==
    /\ imageLoaded /\ ~isDrawing
    /\ SizeOf(canvas) = InitialSize
    /\ canvas' = Rotated(canvas)
    /\ path' = {}
    /\ UNCHANGED <<ui, tasks, backend>>

\* the positions of the brightness and contrast sliders (min 50, max 150)
Sliders == {50, 100, 150}

\* the values of one colour channel of a pixel
Channels == 0..255

\* ToUint8Clamped, for an array that rounds what is stored in it but clamps
\* nothing: only the Math.min of the brightness pass bounds the values
ToUint8Rounded(n, d) ==
    LET q == n \div d
        r == n % d
    IN  IF 2 * r < d THEN q
        ELSE IF 2 * r > d THEN q + 1
        ELSE IF q % 2 = 0 THEN q ELSE q + 1

\* the value a Uint8ClampedArray element takes when n / d (d > 0) is stored
\* in it: clamped to 0..255 and rounded to the nearest integer, a tie to
\* the even one
ToUint8Clamped(n, d) ==
    IF n <= 0 THEN 0
    ELSE IF n >= 255 * d THEN 255
    ELSE LET q == n \div d
             r == n % d
         IN  IF 2 * r < d THEN q
             ELSE IF 2 * r > d THEN q + 1
             ELSE IF q % 2 = 0 THEN q ELSE q + 1

\* Adjusted, with the contrast slider scaled by 128
AdjustedScale128(v, br, ct) ==
    LET bright == ToUint8Clamped(IF v * br < 255 * 100 THEN v * br ELSE 255 * 100, 100)
    IN  ToUint8Clamped((bright - 128) * ct + 128 * 128, 128)

\* what handleAdjust makes of the channel value v with the sliders at br and
\* ct: Math.min(255, v * b) stored in the array, then (that - 128) * c + 128
\* stored in the array, with b = br / 100 and c = ct / 100
Adjusted(v, br, ct) ==
    LET bright == ToUint8Clamped(IF v * br < 255 * 100 THEN v * br ELSE 255 * 100, 100)
    IN  ToUint8Clamped((bright - 128) * ct + 128 * 100, 100)

\* onChange of the brightness slider, enabled once an image is loaded
SetBrightness(v) ==
    /\ imageLoaded
    /\ brightness' = v
    /\ UNCHANGED <<user, savedDrawings, currentDrawingId, isDrawing, isLoading, message,
                   timers, authMode, currentColor, brushSize, imageLoaded, download,
                   contrast,
                   surface, tasks, backend>>

\* onChange of the contrast slider
SetContrast(v) ==
    /\ imageLoaded
    /\ contrast' = v
    /\ UNCHANGED <<user, savedDrawings, currentDrawingId, isDrawing, isLoading, message,
                   timers, authMode, currentColor, brushSize, imageLoaded, download,
                   brightness,
                   surface, tasks, backend>>

\* mouseup or touchend on a slider: every colour channel of every pixel is
\* adjusted, alpha is left alone.  Here the bitmap holds one colour channel
\* of each pixel, as a number.
HandleAdjust ==
    /\ imageLoaded
    /\ canvas' = [p \in Pixels |-> Adjusted(canvas[p], brightness, contrast)]
    /\ UNCHANGED <<ui, path, tasks, backend>>

(***************************************************************************)
(* The component.                                                          *)
(***************************************************************************)
Next ==
    \/ FetchUserReply
    \/ SignIn
    \/ SignInReply
    \/ \E m \in {"signin", "signup"} : SetAuthMode(m)
    \/ SignUp
    \/ SignUpReply
    \/ SignOut
    \/ SignOutReply
    \/ DbList
    \/ DbInsertDrawing
    \/ DbSelect
    \/ DbInsertStroke
    \/ DbFail
    \/ ListReply
    \/ InsertDrawingReply
    \/ SaveDrawing
    \/ \E i \in 1..Len(savedDrawings) : LoadDrawing(i)
    \/ LoadReply
    \/ ImageDecode
    \/ ImageOnload
    \/ ImageError
    \/ \E p \in Points : StartDrawing(p)
    \/ \E p \in Points : Draw(p)
    \/ DrawReply
    \/ StopDrawing
    \/ ClearCanvas
    \/ \E c \in Colors : SetCurrentColor(c)
    \/ \E n \in BrushSizes : SetBrushSize(n)
    \/ \E f \in Files : UploadImage(f)
    \/ UploadOnload
    \/ Rotate
    \/ MessageTimer
    \/ DownloadDrawing
    \/ \E v \in Sliders : SetBrightness(v)
    \/ \E v \in Sliders : SetContrast(v)

Spec == Init /\ [][Next]_vars

(***************************************************************************)
(* The session and the drawing repository: sign-in, sign-out, save and the *)
(* list, with strokes at one pointer position in one colour.               *)
(***************************************************************************)
NextSession ==
    \/ FetchUserReply
    \/ SignIn
    \/ SignInReply
    \/ SignOut
    \/ SignOutReply
    \/ DbList
    \/ DbInsertDrawing
    \/ DbInsertStroke
    \/ DbFail
    \/ ListReply
    \/ InsertDrawingReply
    \/ SaveDrawing
    \/ StartDrawing(<<20, 20>>)
    \/ Draw(<<20, 20>>)
    \/ DrawReply
    \/ MessageTimer

SpecSession == Init /\ [][NextSession]_vars

(***************************************************************************)
(* The canvas and the stroke log: pointer events at every position, with   *)
(* the session restored at startup and ended by sign-out.                  *)
(***************************************************************************)
NextCanvas ==
    \/ FetchUserReply
    \/ SignOut
    \/ SignOutReply
    \/ DbList
    \/ ListReply
    \/ DbInsertStroke
    \/ DbFail
    \/ \E p \in Points : StartDrawing(p)
    \/ \E p \in Points : Draw(p)
    \/ DrawReply
    \/ StopDrawing
    \/ ClearCanvas
    \/ \E c \in Colors : SetCurrentColor(c)
    \/ MessageTimer

SpecCanvas == Init /\ [][NextCanvas]_vars

(***************************************************************************)
(* Saved drawings loaded back: save, the list, loadDrawing and the decode  *)
(* of its image, with the canvas changed by an uploaded image, by a       *)
(* quarter turn and by clearing.                                           *)
(***************************************************************************)
NextLoad ==
    \/ FetchUserReply
    \/ DbList
    \/ DbInsertDrawing
    \/ DbSelect
    \/ DbFail
    \/ ListReply
    \/ InsertDrawingReply
    \/ SaveDrawing
    \/ \E i \in 1..Len(savedDrawings) : LoadDrawing(i)
    \/ LoadReply
    \/ ImageDecode
    \/ ImageOnload
    \/ ImageError
    \/ ClearCanvas
    \/ \E f \in Files : UploadImage(f)
    \/ UploadOnload
    \/ Rotate

SpecLoad == Init /\ [][NextLoad]_vars

(***************************************************************************)
(* What a step does to the tasks.                                          *)
(***************************************************************************)
\* t is invoked in this step
Spawned(t) == CopiesIn(t, tasks') > CopiesIn(t, tasks)
\* t returns in this step
Ended(t) == tasks' = Finish(t)
\* t is unaffected by this step
Kept(t) == CopiesIn(t, tasks') = CopiesIn(t, tasks)
\* the request of t is answered in this step, as u
Answered(t, u) == t.st = "sent" /\ tasks' = Become(t, u)

\* a signIn whose credentials the provider accepted returns
SignInEnds(t) ==
    /\ t.op = "signIn" /\ t.pc \in {"list", "create"} /\ Replied(t)
    /\ Ended(t)

\* C1: when a signIn the provider accepted returns, it has issued the insert
\* of createNewDrawing (it returns from the reply to that insert) and
\* currentDrawingId is set, to a row id or to a placeholder.
C1_SignInOpensDrawing ==
    [][\A t \in Pending :
         SignInEnds(t) => (t.pc = "create" /\ currentDrawingId' # NoId)]_vars

SavedRow(t) == drawings[t.id[2]]

\* a save in flight whose insert has been stored
Stored(t) ==
    /\ t.op = "save"
    /\ (t.pc = "insert" /\ t.st = "ok") \/ t.pc = "list"

\* a signOut the provider accepted returns
SignOutEnds(t) ==
    /\ t.op = "signOut" /\ Ended(t)
    /\ message' # MsgSignOutError

\* a signOut the provider refused returns
SignOutFails(t) ==
    /\ t.op = "signOut" /\ Ended(t)
    /\ message' = MsgSignOutError

\* C3: a signOut that returns while a saveDrawing is in flight leaves that
\* save in flight and the drawings table as it is; when the save then goes
\* on (after its insert, after its list query) user stays null; and the row
\* of every save whose insert was served is in the table, signed in or not.
C3_SaveOutlivesSignOut ==
    [][/\ \A t \in Pending :
            \A s \in Pending :
                (SignOutEnds(t) /\ s.op = "save")
                    => (Kept(s) /\ drawings' = drawings /\ user' = Null)
       /\ \A s \in Pending :
            (s.op = "save" /\ Replied(s) /\ ~Kept(s) /\ user = Null) => user' = Null
       /\ \A s \in BagToSet(tasks') :
            Stored(s) => /\ s.id[2] \in 1..Len(drawings')
                         /\ drawings'[s.id[2]].id = s.id
                         /\ drawings'[s.id[2]].canvas_data = s.data
                         /\ drawings'[s.id[2]].created_by = s.cu]_vars

\* C3 witness: signed out, with a save invoked while signed in that has gone
\* on after the sign-out: its row is stored, its id has been made the
\* current id and its list query is in flight.
C3_Witness ==
    /\ user = Null
    /\ \E s \in Pending :
        /\ s.op = "save" /\ s.pc = "list" /\ s.cu # Null
        /\ currentDrawingId = s.id
        /\ SavedRow(s).canvas_data = s.data

\* C4: saveDrawing sends the canvas as it is when it is invoked; the database
\* stores that snapshot in exactly one new row and no step changes or
\* removes an older row; when the save goes on after a successful insert,
\* currentDrawingId becomes the id of the new row.
C4_SaveInsertsSnapshot ==
    [][/\ \A s \in BagToSet(tasks') :
            (s.op = "save" /\ s.pc = "insert" /\ s.st = "sent" /\ Spawned(s))
                => s.data = toDataURL(canvas)
       /\ \A s \in Pending :
            (s.op = "save" /\ s.pc = "insert" /\ s.st = "sent" /\ ~Kept(s)
                /\ \E u \in BagToSet(tasks') : u.st = "ok" /\ Spawned(u))
                => /\ Len(drawings') = Len(drawings) + 1
                   /\ drawings'[Len(drawings')].canvas_data = s.data
                   /\ drawings'[Len(drawings')].created_by = s.cu
       /\ Len(drawings') \in {Len(drawings), Len(drawings) + 1}
       /\ \A i \in 1..Len(drawings) : drawings'[i] = drawings[i]
       /\ \A s \in Pending :
            (s.op = "save" /\ s.pc = "insert" /\ s.st = "ok" /\ ~Kept(s))
                => /\ currentDrawingId' = s.id
                   /\ SavedRow(s).id = s.id
                   /\ SavedRow(s).canvas_data = s.data]_vars

\* C4 witness: a save has gone on after its insert while the canvas no
\* longer shows what was saved: the new row is current and holds the
\* snapshot taken at the invocation, not the canvas of now.
C4_Witness ==
    \E s \in Pending :
        /\ s.op = "save" /\ s.pc = "list"
        /\ currentDrawingId = s.id
        /\ SavedRow(s).canvas_data = s.data
        /\ s.data # toDataURL(canvas)
        /\ s.data # toDataURL(BlankCanvas)

\* C5: the step that accepts a draw event and issues its insert into
\* drawing_strokes has painted the segment of that event (in the colour of
\* the event), whatever appends are in flight or have failed.
C5_SegmentPaintedAtEvent ==
    [][\A d \in BagToSet(tasks') :
         (d.op = "draw" /\ d.st = "sent" /\ Spawned(d))
            => /\ canvas'[d.pt] = d.color
               /\ d.pt \in path'
               /\ strokes' = strokes]_vars

\* C5 witness: the segments of two samples are on the canvas while the
\* append of the earlier one has failed and the append of the later one is
\* still in flight.
C5_Witness ==
    \E d \in Pending :
        \E e \in Pending :
            /\ d.op = "draw" /\ d.st = "err"
            /\ e.op = "draw" /\ e.st = "sent"
            /\ d.pt # e.pt
            /\ canvas[d.pt] # Blank /\ canvas[e.pt] # Blank
            /\ isDrawing

\* C6: when a signOut the provider accepted returns, user is null,
\* savedDrawings is empty, currentDrawingId is null and the canvas is blank.
C6_SignOutClears ==
    [][\A t \in Pending :
         SignOutEnds(t)
            => /\ user' = Null
               /\ savedDrawings' = <<>>
               /\ currentDrawingId' = NoId
               /\ canvas' = BlankCanvas
               /\ message' = MsgSignedOut]_vars

\* C6 witness: signed out from a session that had a saved drawing open and
\* strokes on the canvas that no save had stored.
C6_Witness ==
    /\ message = MsgSignedOut
    /\ user = Null /\ savedDrawings = <<>> /\ currentDrawingId = NoId
    /\ canvas = BlankCanvas
    /\ strokes # <<>>
    /\ drawings # <<>>
    /\ \A i \in 1..Len(drawings) : drawings[i].canvas_data = toDataURL(BlankCanvas)

\* C7: when a signOut the provider refused returns, only message changes (to
\* the error) and the task is gone: user, savedDrawings, currentDrawingId,
\* the canvas and everything else are as before.
C7_SignOutFailureKeepsState ==
    [][\A t \in Pending :
         SignOutFails(t)
            => UNCHANGED <<user, savedDrawings, currentDrawingId, isDrawing, isLoading,
                           authMode, currentColor, brushSize, canvas, path, drawings,
                           strokes>>]_vars

\* C7 witness: the sign-out error is shown and the session is as it was:
\* signed in, list loaded, a drawing open, strokes on the canvas.
C7_Witness ==
    /\ message = MsgSignOutError
    /\ user # Null /\ savedDrawings # <<>> /\ currentDrawingId # NoId
    /\ canvas # BlankCanvas

\* C8: neither the failure of an insert into drawing_strokes nor the return
\* of draw after it changes message, isDrawing, currentDrawingId, user, the
\* canvas or the path.
C8_StrokeFailureSilent ==
    [][\A d \in Pending :
         (d.op = "draw" /\ ~Kept(d)
            /\ \/ d.st = "err"
               \/ d.st = "sent" /\ [d EXCEPT !.st = "err"] \in BagToSet(tasks')
                                /\ Spawned([d EXCEPT !.st = "err"]))
            => UNCHANGED <<message, isDrawing, currentDrawingId, user, canvas, path>>]_vars

\* C8 witness: a stroke is in progress, the append of one of its segments
\* has failed, the segment is on the canvas and no message is shown.
C8_Witness ==
    /\ isDrawing /\ user # Null /\ message = MsgNone
    /\ \E d \in Pending :
        /\ d.op = "draw" /\ d.st = "err"
        /\ canvas[d.pt] # Blank
    /\ \E i \in 1..Len(strokes) : TRUE

\* C9: in a state with isDrawing false or user null no step invokes draw's
\* insert, adds a segment to the path or paints: the canvas changes only by
\* being blanked or by a loaded image.
C9_DrawGuard ==
    [][(~isDrawing \/ user = Null)
         => /\ \A d \in BagToSet(tasks') : (d.op = "draw" /\ d.st = "sent") => ~Spawned(d)
            /\ path' \subseteq path
            /\ \/ canvas' = canvas
               \/ canvas' = BlankCanvas
               \/ \E t \in Pending :
                    t.pc = "decode" /\ canvas' = DrawImage(Cleared(canvas), Decoded(t.data))]_vars

\* C9 witness: a stroke was begun and the session then ended: pointer moves
\* arrive with isDrawing true and user null.
C9_Witness ==
    /\ isDrawing /\ user = Null
    /\ path # {}

\* C10: while user is null no step starts a stroke or touches the path, and
\* a mousedown then sets the sign-in notice and nothing else.
C10_StartNeedsUser ==
    [][user = Null
         => /\ isDrawing' => isDrawing
            /\ path' = path
            /\ \A p \in Points :
                StartDrawing(p)
                    => /\ message' = MsgNeedSignInToDraw
                       /\ UNCHANGED <<user, isDrawing, canvas, path, tasks>>]_vars

\* C10 witness: signed out, the notice is shown, no stroke is active and the
\* path of the last stroke is still the current path.
C10_Witness ==
    /\ user = Null
    /\ message = MsgNeedSignInToDraw
    /\ ~isDrawing
    /\ path # {}

\* n is h half pixels rounded to whole pixels, halves upwards
RoundedTo(n, h) == 2 * n - h \in {0, 1}

StrictlyDesc(s) == \A i \in 1..(Len(s) - 1) : s[i].created_at > s[i + 1].created_at

\* the list query of task t is served in this step, with the rows of u
ListServed(t, u) ==
    /\ t.pc = "list" /\ t.st = "sent"
    /\ u = [t EXCEPT !.st = "ok", !.rows = u.rows]
    /\ tasks' = Become(t, u)

\* the list result of task t is put into savedDrawings in this step
ListApplied(t) == t.pc = "list" /\ t.st = "ok" /\ ~Kept(t)

\* C12 as stated: whenever savedDrawings is set from a list result it is
\* ordered by created_at strictly descending, and when the list refresh of a
\* successful saveDrawing is applied the row that save inserted is the first
\* element of savedDrawings.
C12_SavedRowFirst ==
    [][\A t \in Pending :
         ListApplied(t)
            => /\ StrictlyDesc(savedDrawings')
               /\ t.op = "save"
                    => (savedDrawings' # <<>> /\ savedDrawings'[1].id = t.id)]_vars

\* C12 amended: whenever savedDrawings is set from a list result it is that
\* result and is ordered by created_at strictly descending; the list refresh
\* of a successful saveDrawing contains the row that save inserted, and that
\* row is the first element exactly when no drawing was inserted after it
\* before the list query was served.
C12_SavedRowListed ==
    [][/\ \A t \in Pending :
            ListApplied(t)
                => /\ savedDrawings' = t.rows
                   /\ StrictlyDesc(savedDrawings')
       /\ \A t \in Pending :
            \A u \in BagToSet(tasks') :
                (t.op = "save" /\ ListServed(t, u))
                    => /\ StrictlyDesc(u.rows)
                       /\ Len(u.rows) = Len(drawings)
                       /\ \E i \in 1..Len(u.rows) : u.rows[i].id = t.id
                       /\ (u.rows[1].id = t.id) <=> (t.id = RowId(Len(drawings)))]_vars

\* C12 witness: two saves overlapped and the list refresh of the one that
\* was stored first has been applied last: its row is current and is the
\* second element of savedDrawings.
C12_Witness ==
    /\ NumTasks = 0
    /\ Len(savedDrawings) = 2
    /\ savedDrawings[2].id = currentDrawingId
    /\ savedDrawings[1].created_at > savedDrawings[2].created_at

\* t goes on or returns in this step
Resumed(t) == CopiesIn(t, tasks') < CopiesIn(t, tasks)

\* the drawings row with id `id`
Row(id) == drawings[CHOOSE i \in 1..Len(drawings) : drawings[i].id = id]

\* the query of loadDrawing task t has succeeded and loadDrawing goes on
LoadFetched(t) == t.op = "load" /\ t.pc = "select" /\ t.st = "ok" /\ Resumed(t)

\* the image of loadDrawing task t has been decoded and its onload runs
LoadShown(t) == t.op = "load" /\ t.pc = "decode" /\ t.st = "ok" /\ Ended(t)

C14_ClearedBeforeDecode ==
    [][\A t \in Pending :
         (LoadFetched(t) /\ t.data # NoData) => canvas' = Cleared(canvas)]_vars

\* bitmaps c and d show the same: every painted pixel of one is a pixel of
\* the other, in the same colour
SameBitmap(c, d) ==
    \A p \in Pixels :
        /\ c[p] \notin {Blank, Outside} => d[p] = c[p]
        /\ d[p] \notin {Blank, Outside} => c[p] = d[p]

\* C15: round trip.  Every stored row holds the snapshot S its saveDrawing
\* took; when the image of a loadDrawing of that row has been decoded and
\* its onload has run, the canvas shows S, whatever has changed the canvas
\* since the save.
C15_SaveLoadRoundTrip ==
    [][\A t \in Pending :
         LoadShown(t) => SameBitmap(canvas', Decoded(Row(t.id).canvas_data))]_vars

\* the startup check that found an identity returns: its list query, the
\* last request it has issued, has been answered
RestoreEnds(t) == t.op = "fetchUser" /\ t.pc = "list" /\ Replied(t) /\ Ended(t)

\* C16: the startup check ends as a successful signIn is claimed to end:
\* when it returns for an identity that is still signed in, the list result
\* has been put into savedDrawings and currentDrawingId is set (a drawing has
\* been created); when the provider reports no identity, user stays null and
\* no request is issued.
C16_RestoreLikeSignIn ==
    [][/\ \A t \in Pending :
            (RestoreEnds(t) /\ user # Null)
                => /\ user' = user
                   /\ t.st = "ok" => savedDrawings' = t.rows
                   /\ currentDrawingId' # NoId
       /\ \A t \in Pending :
            (t.op = "fetchUser" /\ t.pc = "getUser" /\ Resumed(t) /\ user' = Null)
                => (user = Null /\ Ended(t))]_vars

\* C17: a stopDrawing leaves isDrawing false and nothing else changed,
\* whether or not a stroke is active (from a state without a stroke it
\* changes nothing at all), and no other step ends a stroke.
C17_StopDrawingIdempotent ==
    [][/\ StopDrawing
            => /\ ~isDrawing'
               /\ UNCHANGED <<user, savedDrawings, currentDrawingId, isLoading, message,
                              authMode, currentColor, brushSize, imageLoaded, canvas,
                              path, tasks, drawings, strokes>>
       /\ (isDrawing /\ ~isDrawing') => StopDrawing]_vars

\* C17 witness: a stroke of a signed-in user has been ended: its segment is
\* on the canvas, its path is still the current path and its insert is
\* still in flight.
C17_Witness ==
    /\ ~isDrawing /\ user # Null
    /\ \E d \in Pending :
        /\ d.op = "draw" /\ d.st = "sent"
        /\ d.pt \in path
        /\ canvas[d.pt] = d.color

\* the request of task t has failed and t goes on after it
FailedCall(t) ==
    /\ t.op \in {"fetchUser", "signIn", "save", "load"}
    /\ t.pc \in {"list", "insert", "select"}
    /\ t.st = "err" /\ Resumed(t)

\* C18: when a query or insert of loadSavedDrawings, saveDrawing or
\* loadDrawing has failed, the handler sets the error message of that call
\* and returns (a signIn only ends its loading state), leaving user,
\* currentDrawingId, savedDrawings, the canvas and both tables as they are;
\* the failure itself stores nothing.
C18_RepositoryFailureKeepsState ==
    [][/\ \A t \in Pending :
            FailedCall(t)
                => /\ message' = (CASE t.pc = "list" -> MsgListError
                                    [] t.pc = "insert" -> MsgSaveError
                                    [] t.pc = "select" -> MsgLoadError)
                   /\ message' # MsgNone
                   /\ Ended(t)
                   /\ UNCHANGED <<user, currentDrawingId, savedDrawings, canvas, path,
                                  isDrawing, imageLoaded, drawings, strokes>>
       /\ \A t \in Pending :
            (t.pc \in {"list", "insert", "select"} /\ Answered(t, [t EXCEPT !.st = "err"]))
                => UNCHANGED <<ui, surface, backend>>]_vars

\* C18 witness: a loadDrawing has failed in a session that has a drawing
\* open, a list loaded and an uploaded image on the canvas: all are still
\* there, with the error message.
C18_Witness ==
    /\ message = MsgLoadError
    /\ user # Null /\ savedDrawings # <<>> /\ currentDrawingId # NoId
    /\ imageLoaded /\ canvas # BlankCanvas
    /\ NumTasks = 0

\* C19: no step changes or removes a stored stroke row: the table only grows
\* at its end.
C19_StrokesAppendOnly ==
    [][/\ Len(strokes') >= Len(strokes)
       /\ \A i \in 1..Len(strokes) : strokes'[i] = strokes[i]]_vars

\* C19 witness: two strokes are stored, and the canvas has been cleared and
\* the session ended since.
C19_Witness ==
    /\ Len(strokes) = 2
    /\ user = Null /\ message = MsgSignedOut
    /\ canvas = BlankCanvas
    /\ NumTasks = 0

(***************************************************************************)
(* The status message and its timer: messages set by the startup check,    *)
(* by saves, by sign-out and by pointer events without a session, and the  *)
(* 3-second timeout. A timeout that stays pending expires: setTimeout      *)
(* runs its callback unless clearTimeout has been called for it.           *)
(***************************************************************************)
NextMessage ==
    \/ FetchUserReply
    \/ SignOut
    \/ SignOutReply
    \/ DbList
    \/ DbInsertDrawing
    \/ DbFail
    \/ ListReply
    \/ InsertDrawingReply
    \/ SaveDrawing
    \/ StartDrawing(<<20, 20>>)
    \/ StopDrawing
    \/ MessageTimer

SpecMessage ==
    /\ Init
    /\ [][NextMessage]_vars
    /\ \A l \in Messages : WF_vars(TimerFires(l))

\* C20: a non-empty message does not stay for ever: it is cleared to the
\* empty string by its timeout unless another message has replaced it before;
\* and the only timeout pending is the one set for the message now shown, so
\* that the step that clears a message is the expiry of that message's own
\* timeout, never of one set for an earlier message.
C20_MessageCleared ==
    /\ [][/\ timers = {message} \ {MsgNone}
          /\ (message # MsgNone /\ message' = MsgNone)
                => (TimerFires(message) /\ timers' = {})]_vars
    /\ \A m \in Messages : (message = m) ~> (message # m)

\* C20 witness: a save has stored its drawing and its list refresh has
\* failed, each with a message of its own, and the last message has been
\* cleared: no message is shown and no timeout is pending.
C20_Witness ==
    /\ message = MsgNone /\ timers = {}
    /\ user # Null /\ currentDrawingId # NoId
    /\ Len(drawings) = 1 /\ savedDrawings = <<>>
    /\ NumTasks = 0

(***************************************************************************)
(* The brightness and contrast sliders on a loaded image: the bitmap       *)
(* starts with any values short of the two ends of the range in one        *)
(* colour channel of its pixels; adjusting takes it to the ends.           *)
(***************************************************************************)
InitAdjust ==
    /\ user \in Users
    /\ savedDrawings = <<>>
    /\ currentDrawingId = NoId
    /\ isDrawing = FALSE
    /\ isLoading = FALSE
    /\ imageLoaded = TRUE
    /\ download = NoDownload
    /\ brightness = 100
    /\ contrast = 100
    /\ message = MsgNone
    /\ timers = {}
    /\ authMode = "signin"
    /\ currentColor = "#000000"
    /\ brushSize = 5
    /\ canvas \in [Pixels -> Channels \ {0, 255}]
    /\ path = {}
    /\ tasks = EmptyBag
    /\ drawings = <<>>
    /\ strokes = <<>>

NextAdjust ==
    \/ \E v \in Sliders : SetBrightness(v)
    \/ \E v \in Sliders : SetContrast(v)
    \/ HandleAdjust

SpecAdjust == InitAdjust /\ [][NextAdjust]_vars

\* C21: with both sliders at 100, handleAdjust leaves every channel value
\* 0..255 of every pixel as it is.
C21_AdjustIdentity ==
    (brightness = 100 /\ contrast = 100)
        => \A p \in Pixels : Adjusted(canvas[p], brightness, contrast) = canvas[p]

\* C21 witness: both sliders are back at 100 on a bitmap that an earlier
\* adjustment has driven to the two ends of the range.
C21_Witness ==
    /\ brightness = 100 /\ contrast = 100
    /\ canvas[<<20, 20>>] = 0 /\ canvas[<<21, 25>>] = 255

(***************************************************************************)
(* The sign-in form: sign-up, sign-in and sign-out against the provider,   *)
(* with the list loaded for a session.                                     *)
(***************************************************************************)
NextAuth ==
    \/ FetchUserReply
    \/ \E m \in {"signin", "signup"} : SetAuthMode(m)
    \/ SignUp
    \/ SignUpReply
    \/ SignIn
    \/ SignInReply
    \/ SignOut
    \/ SignOutReply
    \/ DbList
    \/ DbFail
    \/ ListReply
    \/ MessageTimer

SpecAuth == Init /\ [][NextAuth]_vars

\* C22: the reply to a signUp ends the handler without any request issued
\* and leaves user, currentDrawingId, savedDrawings, the canvas and both
\* tables as they are; it either sets the success message and authMode
\* 'signin', or sets the error message and leaves authMode alone.  The
\* click, made while user is null, starts the one provider request and
\* changes none of these.
C22_SignUpNoIdentity ==
    [][/\ \A t \in Pending :
            (t.op = "signUp" /\ Resumed(t))
                => /\ Ended(t)
                   /\ UNCHANGED <<user, currentDrawingId, savedDrawings, canvas,
                                  drawings, strokes>>
                   /\ \/ message' = MsgSignedUp /\ authMode' = "signin"
                      \/ message' = MsgSignUpError /\ authMode' = authMode
       /\ \A t \in BagToSet(tasks') :
            (t.op = "signUp" /\ Spawned(t))
                => /\ user = Null
                   /\ tasks' = Spawn(t)
                   /\ UNCHANGED <<user, currentDrawingId, savedDrawings, canvas,
                                  drawings, strokes, message, authMode>>]_vars

\* C22 witness: a signUp has succeeded: the form is back in sign-in mode
\* with the success message, and nobody is signed in.
C22_Witness ==
    /\ message = MsgSignedUp /\ authMode = "signin"
    /\ user = Null /\ currentDrawingId = NoId
    /\ ~isLoading /\ NumTasks = 0

(***************************************************************************)
(* The Download button, with or without a session, on a canvas drawn on,  *)
(* cleared, and cleared by sign-out.                                       *)
(***************************************************************************)
NextDownload ==
    \/ FetchUserReply
    \/ SignOut
    \/ SignOutReply
    \/ DbList
    \/ ListReply
    \/ DbInsertStroke
    \/ DbFail
    \/ StartDrawing(<<20, 20>>)
    \/ \E p \in Points : Draw(p)
    \/ DrawReply
    \/ StopDrawing
    \/ ClearCanvas
    \/ DownloadDrawing
    \/ MessageTimer

SpecDownload == Init /\ [][NextDownload]_vars

\* C23: a step that offers a file for download issues no request and
\* leaves user, currentDrawingId, savedDrawings, the message and its timer,
\* the canvas and both tables as they are; the file is named my-drawing.png
\* and holds the bitmap as it is, with a session or without.
C23_DownloadOnlyLocal ==
    [][download' # download
          => /\ download' = <<"my-drawing.png", toDataURL(canvas)>>
             /\ UNCHANGED <<user, currentDrawingId, savedDrawings, message, timers,
                            canvas, path, isDrawing, tasks, drawings, strokes>>]_vars

\* C23 witness: a drawing made in a session has been downloaded, and the
\* blank canvas left by the sign-out has not: the file still holds the
\* drawing.
C23_Witness ==
    /\ user = Null /\ canvas = BlankCanvas
    /\ download[1] = "my-drawing.png"
    /\ \E p \in Pixels : Decoded(download[2])[p] \notin {Blank, Outside}

\* C24: no step changes or removes a stored drawings row: the table only
\* grows at its end, by one inserted row at a time.
C24_DrawingsInsertOnly ==
    [][/\ Len(drawings') \in {Len(drawings), Len(drawings) + 1}
       /\ \A i \in 1..Len(drawings) : drawings'[i] = drawings[i]]_vars

\* C24 witness: two saves of one session, of different canvases, are stored
\* as two rows, the first of them as it was stored.
C24_Witness ==
    /\ Len(drawings) = 2
    /\ drawings[1].created_by = drawings[2].created_by
    /\ drawings[1].canvas_data # drawings[2].canvas_data
    /\ currentDrawingId = drawings[2].id
    /\ NumTasks = 0

\* the row stored by the step, when the step stores one in drawings
Inserted == drawings'[Len(drawings')]

\* C25: every row the client stores in drawings is public and created by
\* the identity that was signed in when its handler ran (never null), and a
\* row of createNewDrawing has no canvas_data; a request to insert is only
\* issued by a handler that sees a user; a saveDrawing without one only sets
\* the 'Please sign in first!' message.
C25_InsertedRowsOwnedPublic ==
    [][/\ \A t \in Pending :
            (t.pc \in {"create", "insert"} /\ Resumed(t) /\ Len(drawings') > Len(drawings))
                => /\ Inserted.is_public = TRUE
                   /\ Inserted.created_by = t.cu
                   /\ Inserted.created_by \in Users
                   /\ t.pc = "create" => Inserted.canvas_data = NoData
       /\ \A t \in BagToSet(tasks') :
            (t.pc \in {"create", "insert"} /\ t.st = "sent" /\ Spawned(t))
                => (user # Null /\ t.cu = user)
       /\ (user = Null /\ message' = MsgNeedSignIn /\ message # MsgNeedSignIn)
                => UNCHANGED <<user, savedDrawings, currentDrawingId, canvas, tasks,
                               drawings, strokes>>]_vars

\* C25 witness: a save made in a session is stored, public and with the
\* session's identity, and a save tried after the sign-out has only set
\* its message.
C25_Witness ==
    /\ user = Null /\ message = MsgNeedSignIn
    /\ Len(drawings) = 1
    /\ drawings[1].is_public /\ drawings[1].created_by \in Users
    /\ NumTasks = 0

(***************************************************************************)
(* The sign-in form against a backend that other clients use as well: the  *)
(* drawings table may hold a drawing saved under another identity.         *)
(***************************************************************************)
\* a row stored by the saveDrawing of another client, signed in as another
\* identity
OtherRow ==
    [id |-> RowId(1), created_at |-> 1, created_by |-> "u2", is_public |-> TRUE,
     canvas_data |-> toDataURL(BlankCanvas)]

InitShared ==
    /\ user = Null
    /\ savedDrawings = <<>>
    /\ currentDrawingId = NoId
    /\ isDrawing = FALSE
    /\ isLoading = FALSE
    /\ imageLoaded = FALSE
    /\ download = NoDownload
    /\ brightness = 100
    /\ contrast = 100
    /\ message = MsgNone
    /\ timers = {}
    /\ authMode = "signin"
    /\ currentColor = "#000000"
    /\ brushSize = 5
    /\ canvas = BlankCanvas
    /\ path = {}
    /\ tasks = SetToBag({NewTask("fetchUser", "getUser")})
    /\ drawings \in {<<>>, <<OtherRow>>}
    /\ strokes = <<>>

SpecShared == InitShared /\ [][NextAuth]_vars

\* C27: while a user is signed in, every entry of savedDrawings is a drawing
\* created by that user, whatever the table holds.
C27_ListIsOwn ==
    user # Null
        => \A i \in 1..Len(savedDrawings) : Row(savedDrawings[i].id).created_by = user

\* C28: when the provider refuses a signIn, the handler sets the error
\* message, ends its loading state and returns: it issues no request, and
\* user, currentDrawingId, savedDrawings, the canvas and both tables are left
\* as they are.  A request to the provider is only issued by a click on the
\* form, one per click: no reply starts another.
C28_SignInFailureTerminal ==
    [][/\ \A t \in Pending :
            (t.op = "signIn" /\ t.pc = "auth" /\ Resumed(t))
                => \/ /\ message' = MsgSignInError
                      /\ Ended(t)
                      /\ ~isLoading'
                      /\ UNCHANGED <<user, currentDrawingId, savedDrawings, canvas,
                                     drawings, strokes>>
                   \/ /\ message' = MsgSignedIn
                      /\ user' \in Users
       /\ \A u \in BagToSet(tasks') :
            (u.op = "signIn" /\ u.pc = "auth" /\ Spawned(u))
                => /\ tasks' = Spawn(u)
                   /\ ~isLoading /\ isLoading'
                   /\ \A t \in Pending : ~(t.op = "signIn" /\ t.pc = "auth")]_vars

\* C28 witness: a signIn has been refused: its message is shown, nobody is
\* signed in, nothing is loaded and nothing is in flight.
C28_Witness ==
    /\ message = MsgSignInError
    /\ user = Null /\ currentDrawingId = NoId /\ savedDrawings = <<>>
    /\ ~isLoading /\ NumTasks = 0

\* C29: whenever nobody is signed in, no drawing is current and the list of
\* saved drawings is empty, also after replies that arrive late.
C29_SignedOutHoldsNothing ==
    user = Null => (currentDrawingId = NoId /\ savedDrawings = <<>>)

\* C30: the insert a draw issues names, as drawing_id, the id of a row the
\* drawings table holds: not null, not a placeholder.
C30_StrokeNamesStoredDrawing ==
    [][\A d \in BagToSet(tasks') :
            (d.op = "draw" /\ d.st = "sent" /\ Spawned(d))
                => \E i \in 1..Len(drawings) : drawings[i].id = d.cid]_vars

(***************************************************************************)
(* Saves that overlap: the canvas only goes from blank to the uploaded    *)
(* image, so that a save of the image was invoked after every save of the  *)
(* blank canvas; every insert is stored.                                   *)
(***************************************************************************)
NextOverlap ==
    \/ FetchUserReply
    \/ DbList
    \/ ListReply
    \/ SaveDrawing
    \/ DbInsertDrawing
    \/ InsertDrawingReply
    \/ \E f \in Files : UploadImage(f)
    \/ UploadOnload

SpecOverlap == Init /\ [][NextOverlap]_vars

\* the saves that have not returned
SavesInFlight == {t \in Pending : t.op = "save"}

\* C31: once no save is in flight, the current drawing is the row of the
\* save invoked last: when a save of the uploaded image is stored, which was
\* invoked after every save of the blank canvas, its row is the current one.
C31_LastInvokedSaveIsCurrent ==
    (/\ SavesInFlight = {}
     /\ \E i \in 1..Len(drawings) : drawings[i].canvas_data # toDataURL(BlankCanvas))
        => /\ IsRowId(currentDrawingId)
           /\ Row(currentDrawingId).canvas_data # toDataURL(BlankCanvas)

(***************************************************************************)
(* Loads that overlap: the table holds two drawings saved in an earlier    *)
(* session, of the blank canvas and of an uploaded image; the session is   *)
(* restored, the list is loaded and entries of it are clicked.  Nothing    *)
(* else touches the canvas, and every fetch succeeds.                      *)
(***************************************************************************)
EarlierRows ==
    <<[id |-> RowId(1), created_at |-> 1, created_by |-> "u1", is_public |-> TRUE,
       canvas_data |-> toDataURL(BlankCanvas)],
      [id |-> RowId(2), created_at |-> 2, created_by |-> "u1", is_public |-> TRUE,
       canvas_data |-> toDataURL(DrawImageScaled(BlankCanvas, "#3b82f6"))]>>

InitLoads ==
    /\ user = Null
    /\ savedDrawings = <<>>
    /\ currentDrawingId = NoId
    /\ isDrawing = FALSE
    /\ isLoading = FALSE
    /\ imageLoaded = FALSE
    /\ download = NoDownload
    /\ brightness = 100
    /\ contrast = 100
    /\ message = MsgNone
    /\ timers = {}
    /\ authMode = "signin"
    /\ currentColor = "#000000"
    /\ brushSize = 5
    /\ canvas = BlankCanvas
    /\ path = {}
    /\ tasks = SetToBag({NewTask("fetchUser", "getUser")})
    /\ drawings = EarlierRows
    /\ strokes = <<>>

NextLoads ==
    \/ FetchUserReply
    \/ DbList
    \/ ListReply
    \/ \E i \in 1..Len(savedDrawings) : LoadDrawing(i)
    \/ DbSelect
    \/ LoadReply
    \/ ImageDecode
    \/ ImageOnload
    \/ MessageTimer

SpecLoads == InitLoads /\ [][NextLoads]_vars

\* the loads that have not finished
LoadsInFlight == {t \in Pending : t.op = "load"}

\* C32: once no load is in flight, the canvas shows the snapshot of the
\* current drawing.
C32_CanvasShowsCurrentDrawing ==
    (LoadsInFlight = {} /\ IsRowId(currentDrawingId))
        => SameBitmap(canvas, Decoded(Row(currentDrawingId).canvas_data))

\* the list queries that have not been answered and applied
ListsInFlight == {t \in Pending : t.pc = "list"}

\* C33: whenever the current drawing is a stored row and no list query is
\* in flight, savedDrawings has an entry for it.
C33_CurrentDrawingListed ==
    (IsRowId(currentDrawingId) /\ ListsInFlight = {})
        => \E i \in 1..Len(savedDrawings) : savedDrawings[i].id = currentDrawingId

(***************************************************************************)
(* The sign-in form with replies that arrive: a request to the provider    *)
(* or to the database is answered, and a handler whose await has been      *)
(* answered is resumed.                                                    *)
(***************************************************************************)
SpecAuthLive ==
    /\ Init
    /\ [][NextAuth]_vars
    /\ WF_vars(SignInReply)
    /\ WF_vars(SignUpReply)
    /\ WF_vars(DbList)
    /\ WF_vars(ListReply)

\* the signIn and signUp invocations that have not returned
FormCallsInFlight == {t \in Pending : t.op \in {"signIn", "signUp"}}

\* C34: isLoading is true only while a signIn or signUp is in progress, and
\* whenever it is true it becomes false again: every such invocation ends
\* its loading state, whether the provider accepts or refuses and whether
\* the list loads or fails.
C34_LoadingEnds ==
    /\ [](isLoading => FormCallsInFlight # {})
    /\ isLoading ~> ~isLoading

\* C34 witness: a signIn has been accepted and has returned with its
\* message still shown: the loading state is over.
C34_Witness ==
    /\ ~isLoading /\ user # Null
    /\ message = MsgSignedIn
    /\ FormCallsInFlight = {}

(***************************************************************************)
(* The image buffer with its four channels.  getImageData gives handleAdjust*)
(* the pixels as r, g, b, a; the loop rewrites r, g and b of each pixel    *)
(* and steps over a.  The image starts in greys, opaque, half transparent  *)
(* or transparent, with values short of the two ends of the range.         *)
(***************************************************************************)
GreySamples == {40, 128, 200}
AlphaSamples == {0, 128, 255}

\* a grey pixel: the three colour channels hold the same value
Grey(v, al) == [r |-> v, g |-> v, b |-> v, a |-> al]

\* the loop body of handleAdjust on one pixel: data[i], data[i + 1] and
\* data[i + 2] pass through both adjustments, data[i + 3] is not touched
AdjustedPixel(px, br, ct) ==
    [r |-> Adjusted(px.r, br, ct),
     g |-> Adjusted(px.g, br, ct),
     b |-> Adjusted(px.b, br, ct),
     a |-> px.a]

InitBuffer ==
    /\ user \in Users
    /\ savedDrawings = <<>>
    /\ currentDrawingId = NoId
    /\ isDrawing = FALSE
    /\ isLoading = FALSE
    /\ imageLoaded = TRUE
    /\ download = NoDownload
    /\ brightness = 100
    /\ contrast = 100
    /\ message = MsgNone
    /\ timers = {}
    /\ authMode = "signin"
    /\ currentColor = "#000000"
    /\ brushSize = 5
    /\ canvas \in [Pixels -> {Grey(v, al) : v \in GreySamples, al \in AlphaSamples}]
    /\ path = {}
    /\ tasks = EmptyBag
    /\ drawings = <<>>
    /\ strokes = <<>>

\* handleAdjust on the four-channel buffer: getImageData, the loop over the
\* pixels, putImageData
HandleAdjustBuffer ==
    /\ imageLoaded
    /\ canvas' = [p \in Pixels |-> AdjustedPixel(canvas[p], brightness, contrast)]
    /\ UNCHANGED <<ui, path, tasks, backend>>

NextBuffer ==
    \/ \E v \in Sliders : SetBrightness(v)
    \/ \E v \in Sliders : SetContrast(v)
    \/ HandleAdjustBuffer

SpecBuffer == InitBuffer /\ [][NextBuffer]_vars

ClearCanvasStep ==
    /\ canvas # Cleared(canvas)
    /\ canvas' = Cleared(canvas)
    /\ \A t \in Pending : ~Resumed(t)

\* C36: clearCanvas blanks the canvas and nothing else: no request is
\* issued, and user, currentDrawingId, savedDrawings, isDrawing and the
\* stored drawings and drawing_strokes rows are as before.
C36_ClearCanvasOnlyBlanks ==
    [][ClearCanvasStep =>
          /\ tasks' = tasks
          /\ UNCHANGED <<user, currentDrawingId, savedDrawings, isDrawing>>
          /\ UNCHANGED <<drawings, strokes>>]_vars

\* C36 witness: the canvas has been cleared in the middle of a stroke by a
\* signed-in user whose earlier segment is stored: the rows and the session
\* are still there.
C36_Witness ==
    /\ canvas = Cleared(canvas)
    /\ isDrawing /\ user # Null
    /\ path # {} /\ strokes # <<>>

=============================================================================
